---------------------------- MODULE Spec2Model ----------------------------
(***************************************************************************)
(* QuickTune room correction (src/src/quicktune): the calibration          *)
(* controller of quicktune.cpp and the 10-band equalizer of eq10.cpp.      *)
(*                                                                         *)
(* Numbers.  Levels and gains are float dB values in the code; here they   *)
(* are integers in units of 0.01 dB (12.0 dB = 1200).  Every level the     *)
(* model feeds in is a multiple of 0.1 dB, so the damping product          *)
(* gain * 0.7 is exact.  Q is in units of 0.1 (Q = 2.0 is 20).             *)
(*                                                                         *)
(* Audio.  A ProcessBlock call is one action.  Its per-sample loop is      *)
(* modelled by its effect on the counters; the speaker buffer it writes    *)
(* is kept run-length encoded: of its `len` samples, `tone` leading ones    *)
(* written by the tone generator, then `zero` ones written as 0.0f.  The   *)
(* level Goertzel_GetPower returns when a tone completes is a function of  *)
(* the microphone samples of that tone: it is read from mic_room, the      *)
(* per-band level of the room the microphone is in.                        *)
(***************************************************************************)
EXTENDS Integers, Sequences, FiniteSets, TLC

VARIABLES
    s_state,            \* quicktune.cpp:36
    s_current_band,     \* quicktune.cpp:39
    s_sample_counter,   \* quicktune.cpp:42
    s_iteration,        \* quicktune.cpp:45
    s_last_error,       \* quicktune.cpp:48
    s_measured_levels,  \* quicktune.cpp:87
    s_correction_gains, \* quicktune.cpp:90
    s_cumulative_gains, \* quicktune.cpp:93
    s_eq10_coeffs,      \* eq10.cpp:29
    s_eq10_state,       \* eq10.cpp:32
    s_eq10_initialized, \* eq10.cpp:35
    speakerOutput,      \* the caller's output buffer after the last ProcessBlock
    ret,                \* value returned by the last operation: "true", "false", "void"
    mic_room,           \* environment: per-band level the microphone hears in this sweep
    h_op,               \* history: the last operation called (or "RoomChanges")
    h_samples,          \* history: samples consumed by the measuring loop since Start
    h_calls,            \* history: ProcessBlock calls that consumed samples since Start
    h_levels0,          \* history: the levels measured by the first sweep of this run
    h_gains,            \* history: the argument of the last ApplyGains call
    h_args,             \* history: the arguments of the last equalizer call
    rd_pc,              \* reader context: "poll", "read" or "done"
    rd_levels,          \* reader context: elements read so far through GetMeasuredLevels()
    rd_gains,           \* reader context: elements read so far through GetCorrectionGains()
    s_goertzel,         \* quicktune.cpp:72-75: which samples the detector was fed since its reset
    h_fed,              \* history: s_goertzel as it was at the last Goertzel_GetPower
    s_goertzel_coeff,   \* quicktune.cpp:77, with the bin index k it was computed from
    h_envelope          \* history: fade factor, in 1/QUICKTUNE_FADE_SAMPLES, of the last tone sample written

ctl  == <<s_state, s_current_band, s_sample_counter, s_iteration>>
arrs == <<s_measured_levels, s_correction_gains, s_cumulative_gains>>
eq   == <<s_eq10_coeffs, s_eq10_state, s_eq10_initialized>>
hist == <<h_samples, h_calls, h_levels0, h_gains, h_args>>
rd   == <<rd_pc, rd_levels, rd_gains>>
det  == <<s_goertzel, h_fed, s_goertzel_coeff, h_envelope>>
vars == <<ctl, s_last_error, arrs, eq, speakerOutput, ret, mic_room, h_op, hist, rd, det>>

(***************************************************************************)
(* Configuration: quicktune_config.h                                       *)
(***************************************************************************)
QUICKTUNE_SAMPLE_RATE == 48000
QUICKTUNE_NUM_BANDS == 10
QUICKTUNE_BLOCK_SIZE == 32
QUICKTUNE_TONE_SETTLING_SAMPLES == 9600
QUICKTUNE_TONE_ANALYSIS_SAMPLES == 4800
QUICKTUNE_TONE_TOTAL_SAMPLES == 14400
QUICKTUNE_MAX_GAIN_DB == 1200
QUICKTUNE_MIN_GAIN_DB == -1200
QUICKTUNE_EQ_Q == 20
QUICKTUNE_MAX_ITERATIONS == 3
QUICKTUNE_ENABLE_ITERATION == 1
\* QUICKTUNE_DAMPING_FACTOR 0.7f, as a fraction
DampingNum == 7
DampingDen == 10
\* floor of Goertzel_GetPower, -120.0f dB
GoertzelFloorDb == -12000
\* Q limits of the equalizer setters, 0.1f and 20.0f
EQ10_MIN_Q == 1
EQ10_MAX_Q == 200

Bands == 0 .. (QUICKTUNE_NUM_BANDS - 1)

\* Faulty variant: no microphone roll-off compensation.
QUICKTUNE_MEMS_CALIBRATION_Flat == [b \in Bands |-> 0]

QUICKTUNE_MEMS_CALIBRATION ==
    [b \in Bands |-> CASE b = 0 -> 300 [] b = 1 -> 150 [] OTHER -> 0]

QUICKTUNE_BAND_FREQUENCIES ==
    [b \in Bands |->
        CASE b = 0 -> 25 [] b = 1 -> 40 [] b = 2 -> 63 [] b = 3 -> 100
          [] b = 4 -> 160 [] b = 5 -> 250 [] b = 6 -> 400 [] b = 7 -> 630
          [] b = 8 -> 1000 [] OTHER -> 1600]

States == {"IDLE", "MEASURING", "COMPUTING", "APPLYING", "DONE", "ERROR"}

\* An absent array (a null pointer).
NULL == << >>
VOID == "void"

ZeroArray == [b \in Bands |-> 0]

\* No equalizer call has been made yet.
NoArgs == [op |-> "none"]

(***************************************************************************)
(* Inputs                                                                  *)
(***************************************************************************)
\* Block sizes of the general specification: an empty block, and a block
\* of 9600 samples (a tone of 14400 samples then takes two calls, the second
\* of which crosses the tone boundary mid-block).
BlockSizes == {0, QUICKTUNE_TONE_SETTLING_SAMPLES}

\* Per-band levels (before the microphone offset) Goertzel_GetPower yields
\* during one sweep.
RoomFlat == [b \in Bands |-> 0]
RoomSilent == [b \in Bands |-> GoertzelFloorDb]
RoomTilt ==
    [b \in Bands |->
        CASE b = 0 -> -300 [] b = 1 -> 850 [] b = 2 -> 2000 [] b = 3 -> -2000
          [] b = 4 -> 500 [] b = 5 -> -500 [] b = 6 -> 1200 [] b = 7 -> -1200
          [] b = 8 -> 1710 [] OTHER -> -10]
Rooms == {RoomFlat, RoomTilt, RoomSilent}

\* Gain presets handed to QuickTune_ApplyGains (NULL: an absent array):
\* the preset of quicktune_example.cpp, its last two entries out of range.
PresetA ==
    [b \in Bands |->
        CASE b = 0 -> -250 [] b = 1 -> -180 [] b = 2 -> 50 [] b = 3 -> 120
          [] b = 4 -> -30 [] b = 5 -> -150 [] b = 6 -> 80 [] b = 7 -> 20
          [] b = 8 -> 5000 [] OTHER -> -5000]
Presets == {PresetA, NULL}

(***************************************************************************)
(* eq10.cpp                                                                *)
(***************************************************************************)
\* The five coefficients of one band, kept as the term they are computed
\* from: centre frequency, gain and Q as EQ10_DesignBiquad receives them.
EQ10_DesignBiquad(fc, gain_dB, Q) == [fc |-> fc, gain |-> gain_dB, q |-> Q]

ClipGain(gain_dB) ==
    LET g1 == IF gain_dB > QUICKTUNE_MAX_GAIN_DB THEN QUICKTUNE_MAX_GAIN_DB ELSE gain_dB
    IN  IF g1 < QUICKTUNE_MIN_GAIN_DB THEN QUICKTUNE_MIN_GAIN_DB ELSE g1

\* Faulty variant: Q has no upper limit.
ClipQ_NoUpper(Q) == IF Q < EQ10_MIN_Q THEN EQ10_MIN_Q ELSE Q

ClipQ(Q) ==
    LET q1 == IF Q < EQ10_MIN_Q THEN EQ10_MIN_Q ELSE Q
    IN  IF q1 > EQ10_MAX_Q THEN EQ10_MAX_Q ELSE q1

\* The coefficient array EQ10_Init leaves.
EQ10_InitCoeffs ==
    [b \in Bands |-> EQ10_DesignBiquad(QUICKTUNE_BAND_FREQUENCIES[b], 0, QUICKTUNE_EQ_Q)]

\* Faulty variant: the gains are not clipped to the safe range.
EQ10_SetAllGains_Unclipped(coeffs, initialized, gains_dB, Q) ==
    IF ~initialized \/ gains_dB = NULL
    THEN coeffs
    ELSE [b \in Bands |->
            EQ10_DesignBiquad(QUICKTUNE_BAND_FREQUENCIES[b], gains_dB[b], ClipQ(Q))]

\* The coefficient array after EQ10_SetAllGains(gains_dB, Q) on `coeffs`.
EQ10_SetAllGains(coeffs, initialized, gains_dB, Q) ==
    IF ~initialized \/ gains_dB = NULL
    THEN coeffs
    ELSE [b \in Bands |->
            EQ10_DesignBiquad(QUICKTUNE_BAND_FREQUENCIES[b], ClipGain(gains_dB[b]), ClipQ(Q))]

\* Faulty variant: the upper bound is off by one.
EQ10_IsValidBand_OffByOne(band) == band >= 0 /\ band <= QUICKTUNE_NUM_BANDS

\* EQ10_IsValidBand
EQ10_IsValidBand(band) == band >= 0 /\ band < QUICKTUNE_NUM_BANDS

\* Faulty variant: every band is redesigned with the addressed band's gain.
EQ10_SetBandGain_AllBands(coeffs, initialized, band, gain_dB, Q) ==
    IF ~initialized \/ ~EQ10_IsValidBand(band)
    THEN coeffs
    ELSE [b \in Bands |->
            EQ10_DesignBiquad(QUICKTUNE_BAND_FREQUENCIES[b],
                              ClipGain(gain_dB), ClipQ(Q))]

\* The coefficient array after EQ10_SetBandGain(band, gain_dB, Q) on `coeffs`.
EQ10_SetBandGain(coeffs, initialized, band, gain_dB, Q) ==
    IF ~initialized \/ ~EQ10_IsValidBand(band)
    THEN coeffs
    ELSE [coeffs EXCEPT ![band] =
            EQ10_DesignBiquad(QUICKTUNE_BAND_FREQUENCIES[band],
                              ClipGain(gain_dB), ClipQ(Q))]

\* Faulty variant: the blob is copied in with its bands in reverse order.
EQ10_SetCoefficients_Reversed(coeffs, initialized, c) ==
    IF ~initialized \/ c = NULL
    THEN coeffs
    ELSE [b \in Bands |-> c[QUICKTUNE_NUM_BANDS - 1 - b]]

\* The coefficient array after EQ10_SetCoefficients(c) on `coeffs`.
EQ10_SetCoefficients(coeffs, initialized, c) ==
    IF ~initialized \/ c = NULL THEN coeffs ELSE c

\* The values of the five floats of one band, [b0, b1, b2, a1, a2], in
\* fixed point: 1.0 is FixOne.  A band's coefficients are either a term of
\* EQ10_DesignBiquad or five raw values [raw |-> <<...>>] that were loaded
\* or are there since power-on.
FixOne == 100 * 100

\* sinf, cosf and powf(10, x / 40) by their power series.
SinFix(w) ==
    LET w2 == (w * w) \div FixOne
        w3 == (w * w2) \div FixOne
        w5 == (w3 * w2) \div FixOne
    IN  w - (w3 \div 6) + (w5 \div 120)

CosFix(w) ==
    LET w2 == (w * w) \div FixOne
        w4 == (w2 * w2) \div FixOne
    IN  FixOne - (w2 \div 2) + (w4 \div 24)

RECURSIVE ExpSeries(_, _, _)
ExpSeries(x, k, term) ==
    IF k > 12 THEN 0
    ELSE term + ExpSeries(x, k + 1, (term * x) \div (FixOne * k))

\* 10^(gain_dB / 40), gain_dB in 0.01 dB: exp(ln(10) * gain_dB / 4000)
Pow10Fix(gain_dB) == ExpSeries((gain_dB * 23026) \div 4000, 1, FixOne)

\* Faulty variant: the coefficients are not normalized by a0.
BiquadValues_NotNormalized(c) ==
    IF "raw" \in DOMAIN c THEN c.raw
    ELSE LET A == Pow10Fix(c.gain)
             w0 == (c.fc * 62832) \div QUICKTUNE_SAMPLE_RATE
             alpha == (SinFix(w0) * 10) \div (2 * c.q)
         IN  << FixOne + (alpha * A) \div FixOne,
                0 - 2 * CosFix(w0),
                FixOne - (alpha * A) \div FixOne,
                0 - 2 * CosFix(w0),
                FixOne - (alpha * FixOne) \div A >>

\* EQ10_DesignBiquad, evaluated: the five values of a term c.
BiquadValues(c) ==
    IF "raw" \in DOMAIN c THEN c.raw
    ELSE LET A == Pow10Fix(c.gain)
             w0 == (c.fc * 62832) \div QUICKTUNE_SAMPLE_RATE
             sin_w0 == SinFix(w0)
             cos_w0 == CosFix(w0)
             alpha == (sin_w0 * 10) \div (2 * c.q)
             b0 == FixOne + (alpha * A) \div FixOne
             b1 == 0 - 2 * cos_w0
             b2 == FixOne - (alpha * A) \div FixOne
             a0 == FixOne + (alpha * FixOne) \div A
             a1 == 0 - 2 * cos_w0
             a2 == FixOne - (alpha * FixOne) \div A
         IN  << (b0 * FixOne) \div a0,
                (b1 * FixOne) \div a0,
                (b2 * FixOne) \div a0,
                (a1 * FixOne) \div a0,
                (a2 * FixOne) \div a0 >>

(***************************************************************************)
(* quicktune.cpp: private functions                                        *)
(***************************************************************************)
\* Faulty variant: the sample counter is not reset for the next tone.
StartBandMeasurement_KeepsCounter(band, state, counter) ==
    IF band >= QUICKTUNE_NUM_BANDS
    THEN [state |-> "COMPUTING", counter |-> counter]
    ELSE [state |-> state, counter |-> counter]

\* StartBandMeasurement with s_current_band = band: the state and sample
\* counter it leaves, given the ones it finds.
StartBandMeasurement(band, state, counter) ==
    IF band >= QUICKTUNE_NUM_BANDS
    THEN [state |-> "COMPUTING", counter |-> counter]
    ELSE [state |-> state, counter |-> 0]

\* gain * QUICKTUNE_DAMPING_FACTOR
Damped(gain) == (gain * DampingNum) \div DampingDen

\* Faulty variant: the correction is not clipped.
CorrectionGain_Unclipped(measured) == 0 - measured

\* ComputeCorrectionGains, per band: the correction for a measured level.
CorrectionGain(measured) == ClipGain(0 - measured)

\* Faulty variant: refinement passes add the full correction (no damping).
CumulativeGain_Undamped(iteration, cumulative, gain) ==
    IF iteration = 0
    THEN gain
    ELSE ClipGain(cumulative + gain)

\* Faulty variant: the accumulated gain is not clipped again.
CumulativeGain_NoReclip(iteration, cumulative, gain) ==
    IF iteration = 0
    THEN gain
    ELSE cumulative + Damped(gain)

\* ComputeCorrectionGains, per band: the new cumulative gain.
CumulativeGain(iteration, cumulative, gain) ==
    IF iteration = 0
    THEN gain
    ELSE ClipGain(cumulative + Damped(gain))

\* Tone generator (quicktune_config.h:129)
QUICKTUNE_FADE_SAMPLES == 480

\* Faulty variant: the fade-out starts one sample late and one step down.
ToneGenerator_Envelope_LateFadeOut(sample_index) ==
    IF sample_index < QUICKTUNE_FADE_SAMPLES
    THEN sample_index
    ELSE IF sample_index > QUICKTUNE_TONE_TOTAL_SAMPLES - QUICKTUNE_FADE_SAMPLES
    THEN QUICKTUNE_TONE_TOTAL_SAMPLES - sample_index - 1
    ELSE QUICKTUNE_FADE_SAMPLES

\* ToneGenerator_GetSample(sample_index): the factor by which the sample is
\* multiplied besides s_tone_amplitude, as a number of
\* 1/QUICKTUNE_FADE_SAMPLES (QUICKTUNE_FADE_SAMPLES is the factor 1).
ToneGenerator_Envelope(sample_index) ==
    IF sample_index < QUICKTUNE_FADE_SAMPLES
    THEN sample_index
    ELSE IF sample_index >= QUICKTUNE_TONE_TOTAL_SAMPLES - QUICKTUNE_FADE_SAMPLES
    THEN QUICKTUNE_TONE_TOTAL_SAMPLES - sample_index
    ELSE QUICKTUNE_FADE_SAMPLES

\* Goertzel_Init, the bin index in hundredths of a bin:
\* k = (float)num_samples * frequency / QUICKTUNE_SAMPLE_RATE + 0.5f, a
\* float that is not truncated to an integer.
Goertzel_k(frequency, num_samples) ==
    (num_samples * frequency * 100) \div QUICKTUNE_SAMPLE_RATE + 50

\* Goertzel_Init: w = 2 * pi * k / num_samples and s_goertzel_coeff =
\* 2 * cosf(w), kept with the k it was computed from.
Goertzel_Coeff(frequency, num_samples) ==
    LET k == Goertzel_k(frequency, num_samples)
        w == (62832 * k) \div (100 * num_samples)
    IN  [k |-> k, coeff |-> 2 * CosFix(w)]

\* The detector right after Goertzel_Init: s1 = s2 = 0, no sample fed.  The
\* detector's state is kept as the run of sample indices (counted from the
\* start of the tone) it was fed since: how many, from which index, up to
\* which index, and whether each followed the one before.
Goertzel_Init == [n |-> 0, lo |-> 0, hi |-> 0, inorder |-> TRUE]

\* Goertzel_ProcessSample on the samples of indices a .. b - 1, in order.
Goertzel_ProcessSamples(g, a, b) ==
    IF a >= b THEN g
    ELSE IF g.n = 0
    THEN [n |-> b - a, lo |-> a, hi |-> b, inorder |-> g.inorder]
    ELSE [n |-> g.n + (b - a), lo |-> g.lo, hi |-> b,
          inorder |-> g.inorder /\ a = g.hi]

\* Faulty variant: the settling prefix is analyzed too.
FirstAnalyzed_NoSettling(counter) == counter

\* The measuring loop feeds the detector the samples at which
\* s_sample_counter >= SETTLING and < SETTLING + ANALYSIS: of a block that
\* consumes the indices counter .. counter + used - 1, those from
\* FirstAnalyzed up to, not including, LastAnalyzed.
FirstAnalyzed(counter) ==
    IF counter >= QUICKTUNE_TONE_SETTLING_SAMPLES
    THEN counter ELSE QUICKTUNE_TONE_SETTLING_SAMPLES

LastAnalyzed(counter, used) ==
    IF counter + used < QUICKTUNE_TONE_SETTLING_SAMPLES + QUICKTUNE_TONE_ANALYSIS_SAMPLES
    THEN counter + used
    ELSE QUICKTUNE_TONE_SETTLING_SAMPLES + QUICKTUNE_TONE_ANALYSIS_SAMPLES

\* Faulty variant: the loop runs on to the end of the block after the tone
\* has completed.
SamplesConsumed_WholeBlock(counter, numSamples) ==
    IF numSamples <= 0 THEN 0 ELSE numSamples

\* Samples the measuring loop of ProcessBlock consumes from a block of
\* numSamples when the tone stands at `counter`.
SamplesConsumed(counter, numSamples) ==
    IF numSamples <= 0 THEN 0
    ELSE IF counter + numSamples >= QUICKTUNE_TONE_TOTAL_SAMPLES
         THEN (IF counter >= QUICKTUNE_TONE_TOTAL_SAMPLES
               THEN 1 ELSE QUICKTUNE_TONE_TOTAL_SAMPLES - counter)
         ELSE numSamples

\* Faulty variant: the tone completes one sample late (> for >=).
ToneCompletes_Late(counter, numSamples) ==
    numSamples > 0 /\ counter + numSamples > QUICKTUNE_TONE_TOTAL_SAMPLES

\* Whether the tone completes inside this block.
ToneCompletes(counter, numSamples) ==
    numSamples > 0 /\ counter + numSamples >= QUICKTUNE_TONE_TOTAL_SAMPLES

(***************************************************************************)
(* quicktune.cpp: public API                                               *)
(***************************************************************************)
InitState ==
    /\ s_eq10_coeffs = EQ10_InitCoeffs
    /\ s_eq10_state = "clear"
    /\ s_eq10_initialized = TRUE
    /\ s_state = "IDLE"
    /\ s_current_band = 0
    /\ s_sample_counter = 0
    /\ s_iteration = 0
    /\ s_last_error = 0
    /\ s_measured_levels = ZeroArray
    /\ s_correction_gains = ZeroArray
    /\ s_cumulative_gains = ZeroArray

Init ==
    /\ InitState
    /\ speakerOutput = [len |-> 0, tone |-> 0, zero |-> 0]
    /\ ret = VOID
    /\ mic_room \in Rooms
    /\ h_op = "Init"
    /\ h_samples = 0
    /\ h_calls = 0
    /\ h_levels0 = ZeroArray
    /\ h_gains = NULL
    /\ h_args = NoArgs
    /\ rd_pc = "poll"
    /\ rd_levels = NULL
    /\ rd_gains = NULL
    /\ s_goertzel = Goertzel_Init
    /\ h_fed = Goertzel_Init
    /\ s_goertzel_coeff = [k |-> 0, coeff |-> 0]
    /\ h_envelope = 0

QuickTune_Init ==
    /\ s_eq10_coeffs' = EQ10_InitCoeffs
    /\ s_eq10_state' = "clear"
    /\ s_eq10_initialized' = TRUE
    /\ s_state' = "IDLE"
    /\ s_current_band' = 0
    /\ s_sample_counter' = 0
    /\ s_iteration' = 0
    /\ s_last_error' = 0
    /\ s_measured_levels' = ZeroArray
    /\ s_correction_gains' = ZeroArray
    /\ s_cumulative_gains' = ZeroArray
    /\ ret' = VOID
    /\ h_op' = "Init"
    /\ UNCHANGED <<rd, det>>
    /\ h_samples' = 0
    /\ h_calls' = 0
    /\ h_levels0' = ZeroArray
    /\ h_gains' = NULL
    /\ h_args' = NoArgs
    /\ UNCHANGED <<speakerOutput, mic_room>>

\* Faulty variant: a successful Start forgets to leave IDLE.
QuickTune_Start_KeepsIdle ==
    /\ h_op' = "Start"
    /\ UNCHANGED <<rd, h_fed, h_envelope>>
    /\ IF s_state # "IDLE"
       THEN /\ s_last_error' = 1
            /\ ret' = "false"
            /\ UNCHANGED <<ctl, arrs, eq, speakerOutput, mic_room, hist>>
       ELSE /\ s_iteration' = 0
            /\ s_current_band' = 0
            /\ s_sample_counter' = 0
            /\ ret' = "true"
            /\ h_samples' = 0
            /\ h_calls' = 0
            /\ h_levels0' = ZeroArray
            /\ UNCHANGED <<s_state, s_last_error, arrs, eq, speakerOutput, mic_room, h_gains, h_args>>
    /\ s_goertzel' = IF ret' = "true" THEN Goertzel_Init ELSE s_goertzel
    /\ s_goertzel_coeff' =
         IF ret' = "true"
         THEN Goertzel_Coeff(QUICKTUNE_BAND_FREQUENCIES[0], QUICKTUNE_TONE_ANALYSIS_SAMPLES)
         ELSE s_goertzel_coeff

\* Faulty variant: Start also restarts a finished run from DONE.
QuickTune_Start_FromDone ==
    /\ h_op' = "Start"
    /\ UNCHANGED <<rd, h_fed, h_envelope>>
    /\ IF s_state # "IDLE" /\ s_state # "DONE"
       THEN /\ s_last_error' = 1
            /\ ret' = "false"
            /\ UNCHANGED <<ctl, arrs, eq, speakerOutput, mic_room, hist>>
       ELSE /\ s_iteration' = 0
            /\ s_current_band' = 0
            /\ s_state' = "MEASURING"
            /\ s_sample_counter' = 0
            /\ ret' = "true"
            /\ h_samples' = 0
            /\ h_calls' = 0
            /\ h_levels0' = ZeroArray
            /\ UNCHANGED <<s_last_error, arrs, eq, speakerOutput, mic_room, h_gains, h_args>>
    /\ s_goertzel' = IF ret' = "true" THEN Goertzel_Init ELSE s_goertzel
    /\ s_goertzel_coeff' =
         IF ret' = "true"
         THEN Goertzel_Coeff(QUICKTUNE_BAND_FREQUENCIES[0], QUICKTUNE_TONE_ANALYSIS_SAMPLES)
         ELSE s_goertzel_coeff

\* Faulty variant: a rejected Start puts the controller in the ERROR state.
QuickTune_Start_EntersError ==
    /\ h_op' = "Start"
    /\ UNCHANGED <<rd, h_fed, h_envelope>>
    /\ IF s_state # "IDLE"
       THEN /\ s_last_error' = 1
            /\ s_state' = "ERROR"
            /\ ret' = "false"
            /\ UNCHANGED <<s_current_band, s_sample_counter, s_iteration,
                           arrs, eq, speakerOutput, mic_room, hist>>
       ELSE /\ s_iteration' = 0
            /\ s_current_band' = 0
            /\ s_state' = "MEASURING"
            /\ s_sample_counter' = 0
            /\ ret' = "true"
            /\ h_samples' = 0
            /\ h_calls' = 0
            /\ h_levels0' = ZeroArray
            /\ UNCHANGED <<s_last_error, arrs, eq, speakerOutput, mic_room, h_gains, h_args>>
    /\ s_goertzel' = IF ret' = "true" THEN Goertzel_Init ELSE s_goertzel
    /\ s_goertzel_coeff' =
         IF ret' = "true"
         THEN Goertzel_Coeff(QUICKTUNE_BAND_FREQUENCIES[0], QUICKTUNE_TONE_ANALYSIS_SAMPLES)
         ELSE s_goertzel_coeff

QuickTune_Start ==
    /\ h_op' = "Start"
    /\ UNCHANGED <<rd, h_fed, h_envelope>>
    /\ IF s_state # "IDLE"
       THEN /\ s_last_error' = 1
            /\ ret' = "false"
            /\ UNCHANGED <<ctl, arrs, eq, speakerOutput, mic_room, hist>>
       ELSE LET sbm == StartBandMeasurement(0, "MEASURING", s_sample_counter)
            IN  /\ s_iteration' = 0
                /\ s_current_band' = 0
                /\ s_state' = sbm.state
                /\ s_sample_counter' = sbm.counter
                /\ ret' = "true"
                /\ h_samples' = 0
                /\ h_calls' = 0
                /\ h_levels0' = ZeroArray
                /\ UNCHANGED <<s_last_error, arrs, eq, speakerOutput, mic_room, h_gains, h_args>>
    /\ s_goertzel' = IF ret' = "true" THEN Goertzel_Init ELSE s_goertzel
    /\ s_goertzel_coeff' =
         IF ret' = "true"
         THEN Goertzel_Coeff(QUICKTUNE_BAND_FREQUENCIES[0], QUICKTUNE_TONE_ANALYSIS_SAMPLES)
         ELSE s_goertzel_coeff

\* Faulty variant: Stop forgets to reset the iteration index.
QuickTune_Stop_KeepsIteration ==
    /\ h_op' = "Stop"
    /\ UNCHANGED <<rd, det>>
    /\ s_state' = "IDLE"
    /\ s_current_band' = 0
    /\ s_sample_counter' = 0
    /\ ret' = VOID
    /\ UNCHANGED <<s_iteration, s_last_error, arrs, eq, speakerOutput, mic_room, hist>>

\* Faulty variant: Stop also clears the result arrays and the equalizer.
QuickTune_Stop_ClearsResults ==
    /\ h_op' = "Stop"
    /\ UNCHANGED <<rd, det>>
    /\ s_state' = "IDLE"
    /\ s_current_band' = 0
    /\ s_sample_counter' = 0
    /\ s_iteration' = 0
    /\ s_measured_levels' = ZeroArray
    /\ s_correction_gains' = ZeroArray
    /\ s_cumulative_gains' = ZeroArray
    /\ s_eq10_coeffs' = EQ10_InitCoeffs
    /\ ret' = VOID
    /\ UNCHANGED <<s_last_error, s_eq10_state, s_eq10_initialized,
                   speakerOutput, mic_room, hist>>

QuickTune_Stop ==
    /\ h_op' = "Stop"
    /\ UNCHANGED <<rd, det>>
    /\ s_state' = "IDLE"
    /\ s_current_band' = 0
    /\ s_sample_counter' = 0
    /\ s_iteration' = 0
    /\ ret' = VOID
    /\ UNCHANGED <<s_last_error, arrs, eq, speakerOutput, mic_room, hist>>

\* Faulty variant: an absent array is taken for a request to clear the gains.
QuickTune_ApplyGains_NullClears(gains) ==
    /\ h_op' = "ApplyGains"
    /\ UNCHANGED <<rd, det>>
    /\ h_gains' = gains
    /\ ret' = VOID
    /\ IF gains = NULL
       THEN /\ s_last_error' = 3
            /\ s_cumulative_gains' = ZeroArray
            /\ s_eq10_coeffs' = EQ10_InitCoeffs
       ELSE /\ s_cumulative_gains' = gains
            /\ s_eq10_coeffs' =
                 EQ10_SetAllGains(s_eq10_coeffs, s_eq10_initialized, gains, QUICKTUNE_EQ_Q)
            /\ s_last_error' = 0
    /\ UNCHANGED <<ctl, s_measured_levels, s_correction_gains, s_eq10_state,
                   s_eq10_initialized, speakerOutput, mic_room,
                   h_samples, h_calls, h_levels0, h_args>>

QuickTune_ApplyGains(gains) ==
    /\ h_op' = "ApplyGains"
    /\ UNCHANGED <<rd, det>>
    /\ h_gains' = gains
    /\ ret' = VOID
    /\ IF gains = NULL
       THEN /\ s_last_error' = 3
            /\ UNCHANGED <<s_cumulative_gains, s_eq10_coeffs>>
       ELSE /\ s_cumulative_gains' = gains
            /\ s_eq10_coeffs' =
                 EQ10_SetAllGains(s_eq10_coeffs, s_eq10_initialized, gains, QUICKTUNE_EQ_Q)
            /\ s_last_error' = 0
    /\ UNCHANGED <<ctl, s_measured_levels, s_correction_gains, s_eq10_state,
                   s_eq10_initialized, speakerOutput, mic_room,
                   h_samples, h_calls, h_levels0, h_args>>


\* Goertzel_GetPower(QUICKTUNE_TONE_ANALYSIS_SAMPLES) at the end of the
\* current band's tone: the level the microphone heard at that band.
Goertzel_GetPower == mic_room[s_current_band]

\* Faulty variant: the gains are computed and the run is declared done
\* without the Applying step.
ComputeCorrectionGains_StraightToDone ==
    /\ s_correction_gains' =
         [b \in Bands |-> CorrectionGain(s_measured_levels[b])]
    /\ s_cumulative_gains' =
         [b \in Bands |->
            CumulativeGain(s_iteration, s_cumulative_gains[b],
                           CorrectionGain(s_measured_levels[b]))]
    /\ s_state' = "DONE"
    /\ UNCHANGED <<s_current_band, s_sample_counter, s_iteration,
                   s_measured_levels, s_eq10_coeffs, det>>

\* ComputeCorrectionGains
ComputeCorrectionGains ==
    /\ s_correction_gains' =
         [b \in Bands |-> CorrectionGain(s_measured_levels[b])]
    /\ s_cumulative_gains' =
         [b \in Bands |->
            CumulativeGain(s_iteration, s_cumulative_gains[b],
                           CorrectionGain(s_measured_levels[b]))]
    /\ s_state' = "APPLYING"
    /\ UNCHANGED <<s_current_band, s_sample_counter, s_iteration,
                   s_measured_levels, s_eq10_coeffs, det>>

\* Faulty variant: one sweep too many (MAX_ITERATIONS for MAX_ITERATIONS - 1).
IterateAgain_OneMore(iteration) ==
    QUICKTUNE_ENABLE_ITERATION = 1 /\ iteration < QUICKTUNE_MAX_ITERATIONS

\* Faulty variant: the run always ends after its first sweep.
IterateAgain_Never(iteration) ==
    QUICKTUNE_ENABLE_ITERATION = 1 /\ iteration < 0

\* Whether ApplyCorrectionGains starts another measurement sweep.
IterateAgain(iteration) ==
    QUICKTUNE_ENABLE_ITERATION = 1 /\ iteration < QUICKTUNE_MAX_ITERATIONS - 1

\* Faulty variant: the equalizer is programmed with the last correction
\* instead of the cumulative gain.
ApplyCorrectionGains_LastCorrection ==
    /\ s_eq10_coeffs' =
         EQ10_SetAllGains(s_eq10_coeffs, s_eq10_initialized,
                          s_correction_gains, QUICKTUNE_EQ_Q)
    /\ IF IterateAgain(s_iteration)
       THEN /\ s_iteration' = s_iteration + 1
            /\ s_current_band' = 0
            /\ s_state' = "MEASURING"
            /\ s_sample_counter' = 0
       ELSE /\ s_state' = "DONE"
            /\ UNCHANGED <<s_current_band, s_sample_counter, s_iteration>>
    /\ UNCHANGED arrs
    /\ s_goertzel' = IF IterateAgain(s_iteration) THEN Goertzel_Init ELSE s_goertzel
    /\ s_goertzel_coeff' =
         IF IterateAgain(s_iteration)
         THEN Goertzel_Coeff(QUICKTUNE_BAND_FREQUENCIES[0], QUICKTUNE_TONE_ANALYSIS_SAMPLES)
         ELSE s_goertzel_coeff
    /\ h_fed' = h_fed
    /\ h_envelope' = h_envelope

\* Faulty variant: the last sweep ends in IDLE instead of DONE.
ApplyCorrectionGains_EndsIdle ==
    /\ s_eq10_coeffs' =
         EQ10_SetAllGains(s_eq10_coeffs, s_eq10_initialized,
                          s_cumulative_gains, QUICKTUNE_EQ_Q)
    /\ IF IterateAgain(s_iteration)
       THEN LET sbm == StartBandMeasurement(0, "MEASURING", s_sample_counter)
            IN  /\ s_iteration' = s_iteration + 1
                /\ s_current_band' = 0
                /\ s_state' = sbm.state
                /\ s_sample_counter' = sbm.counter
       ELSE /\ s_state' = "IDLE"
            /\ UNCHANGED <<s_current_band, s_sample_counter, s_iteration>>
    /\ UNCHANGED arrs
    /\ s_goertzel' = IF IterateAgain(s_iteration) THEN Goertzel_Init ELSE s_goertzel
    /\ s_goertzel_coeff' =
         IF IterateAgain(s_iteration)
         THEN Goertzel_Coeff(QUICKTUNE_BAND_FREQUENCIES[0], QUICKTUNE_TONE_ANALYSIS_SAMPLES)
         ELSE s_goertzel_coeff
    /\ h_fed' = h_fed
    /\ h_envelope' = h_envelope

\* ApplyCorrectionGains
ApplyCorrectionGains ==
    /\ s_eq10_coeffs' =
         EQ10_SetAllGains(s_eq10_coeffs, s_eq10_initialized,
                          s_cumulative_gains, QUICKTUNE_EQ_Q)
    /\ IF IterateAgain(s_iteration)
       THEN LET sbm == StartBandMeasurement(0, "MEASURING", s_sample_counter)
            IN  /\ s_iteration' = s_iteration + 1
                /\ s_current_band' = 0
                /\ s_state' = sbm.state
                /\ s_sample_counter' = sbm.counter
       ELSE /\ s_state' = "DONE"
            /\ UNCHANGED <<s_current_band, s_sample_counter, s_iteration>>
    /\ UNCHANGED arrs
    /\ s_goertzel' = IF IterateAgain(s_iteration) THEN Goertzel_Init ELSE s_goertzel
    /\ s_goertzel_coeff' =
         IF IterateAgain(s_iteration)
         THEN Goertzel_Coeff(QUICKTUNE_BAND_FREQUENCIES[0], QUICKTUNE_TONE_ANALYSIS_SAMPLES)
         ELSE s_goertzel_coeff
    /\ h_fed' = h_fed
    /\ h_envelope' = h_envelope

\* Faulty variant: the buffer is left as it was (no memset).
SilentBlock_Untouched(numSamples) == [len |-> numSamples, tone |-> 0, zero |-> 0]

\* What the silent branches of ProcessBlock leave in the speaker buffer:
\* memset(speakerOutput, 0, numSamples * sizeof(float)).
SilentBlock(numSamples) == [len |-> numSamples, tone |-> 0, zero |-> numSamples]

\* Faulty variant: the level is stored after the band index was advanced.
StoreLevel_AfterAdvance(levels, band, level_db) ==
    [b \in Bands |-> IF b = band + 1 THEN level_db ELSE levels[b]]

\* s_measured_levels[s_current_band] = level_db
StoreLevel(levels, band, level_db) == [levels EXCEPT ![band] = level_db]

\* The MEASURING branch of QuickTune_ProcessBlock.
MeasureBlock(numSamples) ==
    LET used == SamplesConsumed(s_sample_counter, numSamples)
        fed == Goertzel_ProcessSamples(s_goertzel,
                                       FirstAnalyzed(s_sample_counter),
                                       LastAnalyzed(s_sample_counter, used))
    IN  /\ h_samples' = h_samples + used
        /\ h_envelope' = IF used > 0
                         THEN ToneGenerator_Envelope(s_sample_counter + used - 1)
                         ELSE h_envelope
        /\ h_calls' = IF used > 0 THEN h_calls + 1 ELSE h_calls
        /\ UNCHANGED <<h_levels0, h_gains, h_args>>
        /\ IF ToneCompletes(s_sample_counter, numSamples)
           THEN LET level_db == Goertzel_GetPower
                                  + QUICKTUNE_MEMS_CALIBRATION[s_current_band]
                    sbm == StartBandMeasurement(s_current_band + 1, s_state,
                                                s_sample_counter + used)
                IN  /\ s_measured_levels' =
                         StoreLevel(s_measured_levels, s_current_band, level_db)
                    /\ s_current_band' = s_current_band + 1
                    /\ s_state' = sbm.state
                    /\ s_sample_counter' = sbm.counter
                    /\ speakerOutput' = [len |-> numSamples, tone |-> used, zero |-> numSamples - used]
                    /\ h_fed' = fed
                    /\ s_goertzel' = IF s_current_band + 1 < QUICKTUNE_NUM_BANDS
                                     THEN Goertzel_Init ELSE fed
                    /\ s_goertzel_coeff' =
                         IF s_current_band + 1 < QUICKTUNE_NUM_BANDS
                         THEN Goertzel_Coeff(QUICKTUNE_BAND_FREQUENCIES[s_current_band + 1],
                                             QUICKTUNE_TONE_ANALYSIS_SAMPLES)
                         ELSE s_goertzel_coeff
           ELSE /\ s_sample_counter' = s_sample_counter + used
                /\ speakerOutput' = [len |-> numSamples, tone |-> used, zero |-> 0]
                /\ s_goertzel' = fed
                /\ UNCHANGED <<s_state, s_current_band, s_measured_levels, h_fed,
                               s_goertzel_coeff>>
        /\ UNCHANGED <<s_iteration, s_correction_gains, s_cumulative_gains,
                       s_eq10_coeffs>>

\* Faulty variant: a block in state DONE accumulates the correction again.
QuickTune_ProcessBlock_DoneRecomputes(numSamples) ==
    /\ h_op' = "ProcessBlock"
    /\ UNCHANGED rd
    /\ ret' = VOID
    /\ IF s_state \in {"IDLE", "ERROR"}
       THEN /\ speakerOutput' = SilentBlock(numSamples)
            /\ UNCHANGED <<ctl, arrs, s_eq10_coeffs, hist, det>>
       ELSE IF s_state = "DONE"
       THEN /\ s_cumulative_gains' =
                 [b \in Bands |->
                    CumulativeGain(s_iteration, s_cumulative_gains[b],
                                   CorrectionGain(s_measured_levels[b]))]
            /\ speakerOutput' = SilentBlock(numSamples)
            /\ UNCHANGED <<ctl, s_measured_levels, s_correction_gains,
                           s_eq10_coeffs, hist, det>>
       ELSE IF s_state = "MEASURING"
       THEN MeasureBlock(numSamples)
       ELSE IF s_state = "COMPUTING"
       THEN /\ ComputeCorrectionGains
            /\ speakerOutput' = SilentBlock(numSamples)
            /\ h_levels0' = IF s_iteration = 0 THEN s_measured_levels ELSE h_levels0
            /\ UNCHANGED <<h_samples, h_calls, h_gains, h_args>>
       ELSE /\ s_state = "APPLYING"
            /\ ApplyCorrectionGains
            /\ speakerOutput' = SilentBlock(numSamples)
            /\ UNCHANGED hist
    /\ UNCHANGED <<s_last_error, s_eq10_state, s_eq10_initialized, mic_room>>

QuickTune_ProcessBlock(numSamples) ==
    /\ h_op' = "ProcessBlock"
    /\ UNCHANGED rd
    /\ ret' = VOID
    /\ IF s_state \in {"IDLE", "DONE", "ERROR"}
       THEN /\ speakerOutput' = SilentBlock(numSamples)
            /\ UNCHANGED <<ctl, arrs, s_eq10_coeffs, hist, det>>
       ELSE IF s_state = "MEASURING"
       THEN MeasureBlock(numSamples)
       ELSE IF s_state = "COMPUTING"
       THEN /\ ComputeCorrectionGains
            /\ speakerOutput' = SilentBlock(numSamples)
            /\ h_levels0' = IF s_iteration = 0 THEN s_measured_levels ELSE h_levels0
            /\ UNCHANGED <<h_samples, h_calls, h_gains, h_args>>
       ELSE /\ s_state = "APPLYING"
            /\ ApplyCorrectionGains
            /\ speakerOutput' = SilentBlock(numSamples)
            /\ UNCHANGED hist
    /\ UNCHANGED <<s_last_error, s_eq10_state, s_eq10_initialized, mic_room>>

\* Getters
QuickTune_GetState == s_state

QuickTune_GetCurrentBand ==
    IF s_state = "MEASURING" THEN s_current_band ELSE -1

\* QuickTune_GetProgress returns a float in [0, 1]; here it is the exact
\* value of the same expression as a count of ProgressDen-ths (1.0 is
\* ProgressDen, one sample of one tone is 1).
ProgressDen == QUICKTUNE_NUM_BANDS * QUICKTUNE_TONE_TOTAL_SAMPLES

\* Faulty variant: the samples of the current tone are not counted.
QuickTune_GetProgress_BandsOnly ==
    IF s_state = "IDLE" THEN 0
    ELSE IF s_state = "DONE" THEN ProgressDen
    ELSE IF s_state = "MEASURING"
    THEN s_current_band * QUICKTUNE_TONE_TOTAL_SAMPLES
    ELSE (95 * ProgressDen) \div 100

QuickTune_GetProgress ==
    IF s_state = "IDLE" THEN 0
    ELSE IF s_state = "DONE" THEN ProgressDen
    ELSE IF s_state = "MEASURING"
    THEN LET band_progress == s_current_band * QUICKTUNE_TONE_TOTAL_SAMPLES
             sample_progress == s_sample_counter
         IN  band_progress + sample_progress
    ELSE (95 * ProgressDen) \div 100

\* Faulty variant: the gains are handed out as soon as a run has started.
QuickTune_GetCorrectionGains_Early ==
    IF s_state # "IDLE" THEN s_cumulative_gains ELSE NULL

QuickTune_GetCorrectionGains ==
    IF s_state = "DONE" THEN s_cumulative_gains ELSE NULL

QuickTune_GetMeasuredLevels ==
    IF s_state = "DONE" THEN s_measured_levels ELSE NULL

QuickTune_GetLastError == s_last_error

(***************************************************************************)
(* eq10.cpp: the program-audio path                                        *)
(***************************************************************************)
\* EQ10_ProcessBlock on an audio block: the cascade's delay lines then hold
\* samples of that block.
EQ10_ProcessBlock ==
    /\ s_eq10_state' = IF s_eq10_initialized THEN "used" ELSE s_eq10_state
    /\ h_op' = "EQ10_ProcessBlock"
    /\ UNCHANGED <<rd, det>>
    /\ ret' = VOID
    /\ UNCHANGED <<ctl, s_last_error, arrs, s_eq10_coeffs, s_eq10_initialized,
                   speakerOutput, mic_room, hist>>

EQ10_Reset ==
    /\ s_eq10_state' = "clear"
    /\ h_op' = "EQ10_Reset"
    /\ UNCHANGED <<rd, det>>
    /\ ret' = VOID
    /\ UNCHANGED <<ctl, s_last_error, arrs, s_eq10_coeffs, s_eq10_initialized,
                   speakerOutput, mic_room, hist>>

\* Calls of the equalizer's own API (eq10.h).  Each records its arguments
\* in h_args.
EQ10_Init ==
    /\ s_eq10_coeffs' = EQ10_InitCoeffs
    /\ s_eq10_state' = "clear"
    /\ s_eq10_initialized' = TRUE
    /\ h_op' = "EQ10_Init"
    /\ UNCHANGED <<rd, det>>
    /\ h_args' = [op |-> "EQ10_Init"]
    /\ ret' = VOID
    /\ UNCHANGED <<ctl, s_last_error, arrs, speakerOutput, mic_room,
                   h_samples, h_calls, h_levels0, h_gains>>

EQ10_SetBandGain_Call(band, gain_dB, Q) ==
    /\ s_eq10_coeffs' =
         EQ10_SetBandGain(s_eq10_coeffs, s_eq10_initialized, band, gain_dB, Q)
    /\ ret' = IF ~s_eq10_initialized \/ ~EQ10_IsValidBand(band)
              THEN "false" ELSE "true"
    /\ h_op' = "EQ10_SetBandGain"
    /\ UNCHANGED <<rd, det>>
    /\ h_args' = [op |-> "EQ10_SetBandGain", band |-> band,
                  gain |-> gain_dB, q |-> Q]
    /\ UNCHANGED <<ctl, s_last_error, arrs, s_eq10_state, s_eq10_initialized,
                   speakerOutput, mic_room, h_samples, h_calls, h_levels0, h_gains>>

EQ10_SetAllGains_Call(gains_dB, Q) ==
    /\ s_eq10_coeffs' =
         EQ10_SetAllGains(s_eq10_coeffs, s_eq10_initialized, gains_dB, Q)
    /\ ret' = IF ~s_eq10_initialized \/ gains_dB = NULL
              THEN "false" ELSE "true"
    /\ h_op' = "EQ10_SetAllGains"
    /\ UNCHANGED <<rd, det>>
    /\ h_args' = [op |-> "EQ10_SetAllGains", gains |-> gains_dB, q |-> Q]
    /\ UNCHANGED <<ctl, s_last_error, arrs, s_eq10_state, s_eq10_initialized,
                   speakerOutput, mic_room, h_samples, h_calls, h_levels0, h_gains>>

\* arm_biquad_cascade_df1_init_f32(&s_eq10_instance, EQ10_NUM_BANDS,
\* s_eq10_coeffs, s_eq10_state): the library's initializer is handed the
\* delay-line buffer through a non-const pointer and its body is not part of
\* this repository, so the buffer afterwards is either as it was or zeroed
\* (CMSIS-DSP's initializer zeroes the state buffer).
arm_biquad_cascade_df1_init_f32(state) == {state, "clear"}

EQ10_SetCoefficients_Call(c) ==
    /\ s_eq10_coeffs' = EQ10_SetCoefficients(s_eq10_coeffs, s_eq10_initialized, c)
    /\ IF ~s_eq10_initialized \/ c = NULL
       THEN /\ ret' = "false"
            /\ s_eq10_state' = s_eq10_state
       ELSE /\ ret' = "true"
            /\ s_eq10_state' \in arm_biquad_cascade_df1_init_f32(s_eq10_state)
    /\ h_op' = "EQ10_SetCoefficients"
    /\ UNCHANGED <<rd, det>>
    /\ h_args' = [op |-> "EQ10_SetCoefficients", coeffs |-> c]
    /\ UNCHANGED <<ctl, s_last_error, arrs, s_eq10_initialized,
                   speakerOutput, mic_room, h_samples, h_calls, h_levels0, h_gains>>

\* EQ10_GetCoefficients(coeffs) with a present buffer: what it copies out.
EQ10_GetCoefficients == s_eq10_coeffs

(***************************************************************************)
(* Environment                                                             *)
(***************************************************************************)
\* The room the microphone hears may change between sweeps, not during one.
RoomChanges ==
    /\ s_state # "MEASURING"
    /\ mic_room' \in Rooms \ {mic_room}
    /\ h_op' = "RoomChanges"
    /\ UNCHANGED <<rd, det>>
    /\ UNCHANGED <<ctl, s_last_error, arrs, eq, speakerOutput, ret, hist>>

(***************************************************************************)
(* Specifications                                                          *)
(***************************************************************************)
\* Spec: every public operation of the controller and the equalizer's audio
\* path, in any order, with blocks of BlockSizes; the room is any of Rooms
\* and stays as it is.
Next ==
    \/ QuickTune_Init
    \/ QuickTune_Start
    \/ \E n \in BlockSizes : QuickTune_ProcessBlock(n)
    \/ QuickTune_Stop
    \/ \E g \in Presets : QuickTune_ApplyGains(g)
    \/ EQ10_ProcessBlock
    \/ EQ10_Reset

Spec == Init /\ [][Next]_vars

\* SpecRefine: calibration runs in a room that changes between sweeps, with
\* presets applied at any time.
NextRefine ==
    \/ QuickTune_Start
    \/ \E n \in BlockSizes : QuickTune_ProcessBlock(n)
    \/ \E g \in Presets : QuickTune_ApplyGains(g)
    \/ RoomChanges

SpecRefine == Init /\ [][NextRefine]_vars

\* SpecRun: one calibration run from Start to Done, ProcessBlock calls only,
\* in a room that changes between sweeps; no preset is applied.
NextRun ==
    \/ QuickTune_Start
    \/ \E n \in BlockSizes : QuickTune_ProcessBlock(n)
    \/ RoomChanges

SpecRun == Init /\ [][NextRun]_vars

\* SpecEq: the equalizer on its own, from power-on (s_eq10_initialized
\* false, coefficients and delay lines zero-initialized statics).
RawZero == [raw |-> <<0, 0, 0, 0, 0>>]

\* Inputs of the equalizer calls: band indices on both sides of [0, 9],
\* gains of 6 dB and 50 dB, Q of 0, 2.0 and 50, gain arrays absent, all
\* 0 dB and the preset with its +/-50 dB entries, coefficient blobs absent
\* and present.
EqBands == {-1, 0, 9, 10}
EqGains == {600, 5000}
EqQs == {0, 20, 500}
EqGainArrays == {NULL, ZeroArray, PresetA}

\* A stored preset: 50 raw coefficients, different in every band.
RawBlob == [b \in Bands |-> [raw |-> <<10000 + b, b, 0, 0 - b, 0>>]]
EqBlobs == {NULL, RawBlob}

InitEq ==
    /\ s_eq10_coeffs = [b \in Bands |-> RawZero]
    /\ s_eq10_state = "clear"
    /\ s_eq10_initialized = FALSE
    /\ s_state = "IDLE"
    /\ s_current_band = 0
    /\ s_sample_counter = 0
    /\ s_iteration = 0
    /\ s_last_error = 0
    /\ s_measured_levels = ZeroArray
    /\ s_correction_gains = ZeroArray
    /\ s_cumulative_gains = ZeroArray
    /\ speakerOutput = [len |-> 0, tone |-> 0, zero |-> 0]
    /\ ret = VOID
    /\ mic_room = RoomFlat
    /\ h_op = "none"
    /\ h_samples = 0
    /\ h_calls = 0
    /\ h_levels0 = ZeroArray
    /\ h_gains = NULL
    /\ h_args = NoArgs
    /\ rd_pc = "poll"
    /\ rd_levels = NULL
    /\ rd_gains = NULL
    /\ s_goertzel = Goertzel_Init
    /\ h_fed = Goertzel_Init
    /\ s_goertzel_coeff = [k |-> 0, coeff |-> 0]
    /\ h_envelope = 0

NextEq ==
    \/ EQ10_Init
    \/ \E band \in EqBands, g \in EqGains, q \in EqQs :
          EQ10_SetBandGain_Call(band, g, q)
    \/ \E gains \in EqGainArrays, q \in EqQs : EQ10_SetAllGains_Call(gains, q)
    \/ \E c \in EqBlobs : EQ10_SetCoefficients_Call(c)
    \/ EQ10_ProcessBlock
    \/ EQ10_Reset

SpecEq == InitEq /\ [][NextEq]_vars

\* SpecBand: the initialized system in one room, with the controller's
\* operations and the equalizer's setters interleaved: SetBandGain on the
\* first band and on index 10 with 50 dB and Q of 2.0 or 50, SetAllGains
\* with the preset and Q of 50.
BandBands == {0, 10}
BandQs == {20, 500}

InitBand == Init /\ mic_room = RoomTilt

NextBand ==
    \/ QuickTune_Start
    \/ \E n \in BlockSizes : QuickTune_ProcessBlock(n)
    \/ \E g \in Presets : QuickTune_ApplyGains(g)
    \/ \E band \in BandBands, q \in BandQs : EQ10_SetBandGain_Call(band, 5000, q)
    \/ EQ10_SetAllGains_Call(PresetA, 500)
    \/ EQ10_ProcessBlock
    \/ EQ10_Reset

SpecBand == InitBand /\ [][NextBand]_vars

\* The reader context (application thread): it polls QuickTune_GetState();
\* once it has seen QUICKTUNE_STATE_DONE it reads the arrays behind
\* QuickTune_GetMeasuredLevels() and QuickTune_GetCorrectionGains() one
\* element at a time, then lets go of them.
Reader_Poll ==
    /\ rd_pc = "poll"
    /\ ret' = QuickTune_GetState
    /\ rd_pc' = IF QuickTune_GetState = "DONE" THEN "read" ELSE "poll"
    /\ rd_levels' = NULL
    /\ rd_gains' = NULL
    /\ h_op' = "Reader_Poll"
    /\ UNCHANGED <<ctl, s_last_error, arrs, eq, speakerOutput, mic_room, hist, det>>

Reader_Read ==
    /\ rd_pc = "read"
    /\ LET nl == Cardinality(DOMAIN rd_levels)
           ng == Cardinality(DOMAIN rd_gains)
       IN  IF nl < QUICKTUNE_NUM_BANDS
           THEN /\ rd_levels' = [i \in 0 .. nl |->
                                   IF i < nl THEN rd_levels[i]
                                             ELSE s_measured_levels[i]]
                /\ UNCHANGED <<rd_gains, rd_pc>>
           ELSE /\ rd_gains' = [i \in 0 .. ng |->
                                  IF i < ng THEN rd_gains[i]
                                            ELSE s_cumulative_gains[i]]
                /\ rd_pc' = IF ng + 1 = QUICKTUNE_NUM_BANDS THEN "done" ELSE "read"
                /\ UNCHANGED rd_levels
    /\ h_op' = "Reader_Read"
    /\ UNCHANGED <<ctl, s_last_error, arrs, eq, speakerOutput, ret, mic_room, hist, det>>

Reader_Release ==
    /\ rd_pc = "done"
    /\ rd_pc' = "poll"
    /\ rd_levels' = NULL
    /\ rd_gains' = NULL
    /\ h_op' = "Reader_Release"
    /\ UNCHANGED <<ctl, s_last_error, arrs, eq, speakerOutput, ret, mic_room, hist, det>>

\* SpecPub: the audio context calls ProcessBlock, the reader context starts
\* runs (while it holds no result) and reads the results of finished ones;
\* the two interleave at every step.
NextPub ==
    \/ rd_pc = "poll" /\ QuickTune_Start
    \/ \E n \in BlockSizes : QuickTune_ProcessBlock(n)
    \/ Reader_Poll
    \/ Reader_Read
    \/ Reader_Release

SpecPub == Init /\ [][NextPub]_vars

\* SpecSplit: calibration runs fed with blocks of unequal sizes: blocks that
\* end inside the settling prefix, at its end, inside the analysis window,
\* and blocks longer than what is left of the tone or than a whole tone.
SplitSizes == {4800, 9600, 10000, 20000}

NextSplit ==
    \/ QuickTune_Start
    \/ \E n \in SplitSizes : QuickTune_ProcessBlock(n)

SpecSplit == InitBand /\ [][NextSplit]_vars

\* SpecFixed: one calibration run driven by an audio callback whose block
\* size is chosen at the first call and stays what it was (the length of the
\* previous block): sizes that divide a tone and sizes that do not.
FixedSizes == {1000, 4800, 10000, 20000}

NextFixed ==
    \/ QuickTune_Start
    \/ \E n \in FixedSizes :
          /\ speakerOutput.len \in {0, n}
          /\ QuickTune_ProcessBlock(n)

SpecFixed == Init /\ [][NextFixed]_vars

\* SpecTone: one calibration run in one room, the audio callback handing
\* over one sample per call, so that every sample of every tone is a step.
NextTone ==
    \/ QuickTune_Start
    \/ QuickTune_ProcessBlock(1)

SpecTone == InitBand /\ [][NextTone]_vars

\* SpecLive: Start, ApplyGains and ProcessBlock calls of at least one sample
\* in any order, without Stop or Init; the audio callback keeps coming, so
\* a ProcessBlock call that would change something is eventually made.
LiveSizes == {4800, 9600}

LiveBlock == \E n \in LiveSizes : QuickTune_ProcessBlock(n)

NextLive ==
    \/ QuickTune_Start
    \/ LiveBlock
    \/ \E g \in Presets : QuickTune_ApplyGains(g)

SpecLive == InitBand /\ [][NextLive]_vars /\ WF_vars(LiveBlock)

\* SpecTiming: the audio callback as configured, one ProcessBlock call per
\* block of QUICKTUNE_BLOCK_SIZE samples, with Start and Stop at any time.
NextTiming ==
    \/ QuickTune_Start
    \/ QuickTune_ProcessBlock(QUICKTUNE_BLOCK_SIZE)
    \/ QuickTune_Stop

SpecTiming == Init /\ [][NextTiming]_vars


(***************************************************************************)
(* Claims                                                                  *)
(***************************************************************************)
\* C1: QuickTune_Start called in IDLE returns true and leaves the controller
\* in MEASURING with band index 0, iteration 0 and sample counter 0, whatever
\* the counters and the result arrays held before.
C1_StartFromIdle ==
    [][(h_op' = "Start" /\ s_state = "IDLE") =>
         /\ ret' = "true"
         /\ s_state' = "MEASURING"
         /\ s_current_band' = 0
         /\ s_iteration' = 0
         /\ s_sample_counter' = 0]_vars

\* A Start that succeeded while the arrays still held an earlier run's results.
C1_Witness ==
    /\ h_op = "Start"
    /\ ret = "true"
    /\ s_state = "MEASURING"
    /\ s_measured_levels # ZeroArray
    /\ s_cumulative_gains # ZeroArray

\* C2: QuickTune_Start called in any state other than IDLE returns false,
\* sets the last-error code to 1 and leaves the state, the counters, the
\* result arrays and the equalizer unchanged.
C2_StartRejected ==
    [][(h_op' = "Start" /\ s_state # "IDLE") =>
         /\ ret' = "false"
         /\ s_last_error' = 1
         /\ UNCHANGED <<ctl, arrs, eq>>]_vars

\* A Start refused in DONE: the finished run is not restarted.
C2_Witness ==
    /\ h_op = "Start"
    /\ ret = "false"
    /\ s_last_error = 1
    /\ s_state = "DONE"

\* C3: with blocks of 32 samples, the first sweep after Start is in COMPUTING
\* only when exactly 144000 samples have been consumed, in exactly 4500
\* ProcessBlock calls; until then the controller is still MEASURING.
C3_ComputingAfter144000 ==
    /\ (s_state = "COMPUTING" /\ s_iteration = 0) =>
          (h_samples = 144000 /\ h_calls = 4500)
    /\ (s_state = "MEASURING" /\ s_iteration = 0) =>
          (h_samples < 144000 /\ h_calls < 4500 /\ h_samples = 32 * h_calls)

C3_Witness ==
    /\ s_state = "COMPUTING"
    /\ s_iteration = 0
    /\ h_op = "ProcessBlock"
    /\ h_calls = 4500

\* C4: a ProcessBlock call in COMPUTING leaves APPLYING, and a ProcessBlock
\* call in APPLYING leaves MEASURING if iterations remain and DONE otherwise,
\* whatever the block's sample count.
C4_OneCallPerStep ==
    [][h_op' = "ProcessBlock" =>
         /\ (s_state = "COMPUTING" => s_state' = "APPLYING")
         /\ (s_state = "APPLYING" =>
               s_state' = IF s_iteration < QUICKTUNE_MAX_ITERATIONS - 1
                          THEN "MEASURING" ELSE "DONE")]_vars

\* The COMPUTING call, made with an empty block, has left APPLYING.
C4_Witness ==
    /\ h_op = "ProcessBlock"
    /\ s_state = "APPLYING"
    /\ speakerOutput.len = 0

\* C5: QuickTune_Stop, in any state, leaves IDLE with band index, sample
\* counter and iteration index 0.
C5_StopResets ==
    h_op = "Stop" =>
        /\ s_state = "IDLE"
        /\ s_current_band = 0
        /\ s_sample_counter = 0
        /\ s_iteration = 0

\* A Stop that aborted a run in the middle of a tone of its second sweep.
C5_Witness ==
    /\ h_op = "Stop"
    /\ s_state = "IDLE"
    /\ h_samples = 10 * QUICKTUNE_TONE_TOTAL_SAMPLES + QUICKTUNE_TONE_SETTLING_SAMPLES

C7_GettersGatedOnDone ==
    /\ (QuickTune_GetCorrectionGains # NULL) <=> (s_state = "DONE")
    /\ (QuickTune_GetMeasuredLevels # NULL) <=> (s_state = "DONE")
    /\ s_state = "DONE" =>
         /\ QuickTune_GetCorrectionGains = s_cumulative_gains
         /\ QuickTune_GetMeasuredLevels = s_measured_levels

\* After a Stop that followed a completed run the arrays are still there,
\* and the getters return null.
C7_Witness ==
    /\ h_op = "Stop"
    /\ h_samples = 30 * QUICKTUNE_TONE_TOTAL_SAMPLES
    /\ s_cumulative_gains # ZeroArray
    /\ QuickTune_GetCorrectionGains = NULL
    /\ QuickTune_GetMeasuredLevels = NULL

\* C8: a ProcessBlock call made while the state is not MEASURING writes zero
\* to all samples of the speaker buffer; in IDLE, DONE and ERROR it changes
\* no controller or equalizer state.
C8_SilentOutsideMeasuring ==
    [][(h_op' = "ProcessBlock" /\ s_state # "MEASURING") =>
         /\ speakerOutput'.tone = 0
         /\ speakerOutput'.zero = speakerOutput'.len
         /\ s_state \in {"IDLE", "DONE", "ERROR"} =>
               UNCHANGED <<ctl, s_last_error, arrs, eq>>]_vars

\* A non-empty block processed in IDLE.
C8_Witness ==
    /\ h_op = "ProcessBlock"
    /\ s_state = "IDLE"
    /\ speakerOutput.len > 0
    /\ speakerOutput.zero = speakerOutput.len

Clamp12(x) == IF x > 1200 THEN 1200 ELSE IF x < -1200 THEN -1200 ELSE x
Times07(x) == (7 * x) \div 10

\* C9: in the COMPUTING tick, for every band b, correction[b] becomes
\* clamp(-measured[b]); cumulative[b] becomes correction[b] in iteration 0
\* and clamp(cumulative[b] + 0.7 * correction[b]) in later iterations.
C9_ComputingTick ==
    [][(h_op' = "ProcessBlock" /\ s_state = "COMPUTING") =>
         \A b \in Bands :
            /\ s_correction_gains'[b] = Clamp12(0 - s_measured_levels[b])
            /\ s_cumulative_gains'[b] =
                 IF s_iteration = 0
                 THEN s_correction_gains'[b]
                 ELSE Clamp12(s_cumulative_gains[b]
                              + Times07(s_correction_gains'[b]))]_vars

\* The COMPUTING tick of iteration 0 has overwritten a preset that
\* ApplyGains had stored (the equalizer still carries the preset).
C9_Witness ==
    /\ h_op = "ProcessBlock"
    /\ s_state = "APPLYING"
    /\ s_iteration = 0
    /\ s_eq10_coeffs = EQ10_SetAllGains(EQ10_InitCoeffs, TRUE, PresetA, QUICKTUNE_EQ_Q)
    /\ s_cumulative_gains # PresetA

\* The COMPUTING tick of a refinement pass, with a measured level beyond
\* 12 dB and a cumulative gain that is not pinned at a limit.
C9_WitnessRefine ==
    /\ h_op = "ProcessBlock"
    /\ s_state = "APPLYING"
    /\ s_iteration = 1
    /\ \E b \in Bands :
          /\ s_measured_levels[b] < -1200
          /\ s_cumulative_gains[b] < 1200
          /\ s_cumulative_gains[b] > 0

\* C10 as stated: after iteration 1, cumulative[b] is
\* clamp(clamp(-d) + 0.7 * (-m1)), d and m1 the levels measured by the
\* first and the second sweep, for all d and m1.
C10_Original ==
    (s_state = "APPLYING" /\ s_iteration = 1) =>
        \A b \in Bands :
            s_cumulative_gains[b] =
                Clamp12(Clamp12(0 - h_levels0[b])
                        + Times07(0 - s_measured_levels[b]))

\* C10 as amended: after iteration 1, cumulative[b] is
\* clamp(clamp(-d) + 0.7 * clamp(-m1)): the second sweep's correction is
\* clamped to +/-12 dB before it is damped.
C10_Amended ==
    (s_state = "APPLYING" /\ s_iteration = 1) =>
        \A b \in Bands :
            s_cumulative_gains[b] =
                Clamp12(Clamp12(0 - h_levels0[b])
                        + Times07(Clamp12(0 - s_measured_levels[b])))

\* After iteration 1 with d = 0 and m1 = -20 dB in some band.
C10_Witness ==
    /\ s_state = "APPLYING"
    /\ s_iteration = 1
    /\ \E b \in Bands :
          /\ h_levels0[b] = 0
          /\ s_measured_levels[b] = -2000
          /\ s_cumulative_gains[b] = 840

SweepSamples == 10 * 14400

C13_Original ==
    [][(h_op' = "ProcessBlock" /\ s_state = "MEASURING"
          /\ s_state' = "COMPUTING" /\ mic_room = RoomSilent) =>
         \A b \in Bands : s_measured_levels'[b] = -12000]_vars

\* C13 as amended: when a sweep ends in a room that was silent throughout,
\* the measured level stored for band b is the floor plus the microphone
\* calibration offset of the band: -117 dB for band 0, -118.5 dB for band 1
\* and -120 dB for bands 2 to 9.
C13_Amended ==
    [][(h_op' = "ProcessBlock" /\ s_state = "MEASURING"
          /\ s_state' = "COMPUTING" /\ mic_room = RoomSilent) =>
         \A b \in Bands :
            s_measured_levels'[b] =
                IF b = 0 THEN -11700 ELSE IF b = 1 THEN -11850 ELSE -12000]_vars

\* A sweep has just ended in the silent room.
C13_Witness ==
    /\ h_op = "ProcessBlock"
    /\ s_state = "COMPUTING"
    /\ mic_room = RoomSilent
    /\ h_samples = SweepSamples
    /\ s_measured_levels[0] = -11700
    /\ s_measured_levels[9] = -12000

\* C14: in a room that is silent throughout every sweep (all-zero microphone
\* input) and with no preset applied, the cumulative gain of every band is
\* +12 dB from the COMPUTING tick of iteration 0 on, and the gains
\* QuickTune_GetCorrectionGains hands out in DONE are +12 dB for all 10
\* bands.
C14_SilentRoomGains ==
    mic_room = RoomSilent =>
        /\ (s_state = "APPLYING" \/ s_state = "DONE" \/ s_iteration >= 1) =>
              \A b \in Bands : s_cumulative_gains[b] = 1200
        /\ s_state = "DONE" =>
              QuickTune_GetCorrectionGains = [b \in Bands |-> 1200]

\* A run in the silent room has reached DONE after its three sweeps.
C14_Witness ==
    /\ mic_room = RoomSilent
    /\ s_state = "DONE"
    /\ h_samples = 3 * SweepSamples
    /\ s_measured_levels[0] = -11700
    /\ QuickTune_GetCorrectionGains = [b \in Bands |-> 1200]

\* C15: QuickTune_ApplyGains(g) with a present array g, in any state, leaves
\* the cumulative gains equal to g, every band b with the coefficients
\* EQ10_DesignBiquad(fc_b, clamp(g[b]), Q = 2.0), the clamp to +/-12 dB, and
\* the last error 0; state, band index, sample counter and iteration index
\* are unchanged.
C15_ApplyGainsPresent ==
    [][(h_op' = "ApplyGains" /\ h_gains' # NULL) =>
         /\ s_cumulative_gains' = h_gains'
         /\ \A b \in Bands :
               s_eq10_coeffs'[b] =
                   EQ10_DesignBiquad(QUICKTUNE_BAND_FREQUENCIES[b],
                                     Clamp12(h_gains'[b]), 20)
         /\ s_last_error' = 0
         /\ UNCHANGED <<s_state, s_current_band, s_sample_counter, s_iteration>>]_vars

\* ApplyGains has stored a preset with a 50 dB entry in the middle of the
\* tone of band 3: the band of the entry carries 12 dB, the run goes on.
C15_Witness ==
    /\ h_op = "ApplyGains"
    /\ h_gains = PresetA
    /\ s_state = "MEASURING"
    /\ s_sample_counter = 9600
    /\ s_current_band = 3
    /\ s_last_error = 0
    /\ s_cumulative_gains[8] = 5000
    /\ s_eq10_coeffs[8].gain = 1200

\* C16: QuickTune_ApplyGains with an absent array sets the last error to 3
\* and changes nothing else: controller state and counters, measured levels,
\* correction and cumulative gains, the equalizer and the speaker buffer are
\* as before.
C16_ApplyGainsAbsent ==
    [][(h_op' = "ApplyGains" /\ h_gains' = NULL) =>
         /\ s_last_error' = 3
         /\ UNCHANGED <<ctl, arrs, eq, speakerOutput>>]_vars

\* ApplyGains with an absent array has been called after a run had reached
\* DONE with gains that are not all zero.
C16_Witness ==
    /\ h_op = "ApplyGains"
    /\ h_gains = NULL
    /\ s_last_error = 3
    /\ s_state = "DONE"
    /\ s_cumulative_gains # ZeroArray
    /\ s_eq10_coeffs # EQ10_InitCoeffs

\* C17: over a run, the value of QuickTune_GetProgress never decreases from
\* one ProcessBlock call to the next, the MEASURING to COMPUTING step and
\* the APPLYING to MEASURING step included.
C17_ProgressMonotonic ==
    [][(h_op' = "ProcessBlock" /\ s_state \in {"MEASURING", "COMPUTING", "APPLYING"}) =>
         QuickTune_GetProgress' >= QuickTune_GetProgress]_vars

\* C18: QuickTune_GetProgress is within [0, 1] in every reachable state:
\* 0 in IDLE, 1 in DONE, 0.95 in COMPUTING and APPLYING, and in MEASURING
\* band/10 + (counter/14400)/10, which is below 1.  (Values in 144000ths.)
C18_ProgressRange ==
    /\ QuickTune_GetProgress >= 0
    /\ QuickTune_GetProgress <= 144000
    /\ s_state = "IDLE" => QuickTune_GetProgress = 0
    /\ s_state = "DONE" => QuickTune_GetProgress = 144000
    /\ s_state \in {"COMPUTING", "APPLYING"} => QuickTune_GetProgress = 136800
    /\ s_state = "MEASURING" =>
          /\ QuickTune_GetProgress = 14400 * s_current_band + s_sample_counter
          /\ QuickTune_GetProgress < 144000

\* In the middle of the last tone: progress 0.9667.
C18_Witness ==
    /\ s_state = "MEASURING"
    /\ s_current_band = 9
    /\ s_sample_counter = 9600
    /\ QuickTune_GetProgress = 139200

\* C19: between calls the band index is within [0, 10] and the sample
\* counter at most 14400; in MEASURING the band index is within [0, 9] and
\* the sample counter below 14400; QuickTune_GetCurrentBand returns the band
\* index in MEASURING and -1 in every other state.
C19_BandAndCounterRange ==
    /\ s_current_band \in 0 .. 10
    /\ s_sample_counter \in 0 .. 14400
    /\ s_state = "MEASURING" =>
          /\ s_current_band \in 0 .. 9
          /\ s_sample_counter < 14400
          /\ QuickTune_GetCurrentBand = s_current_band
    /\ s_state # "MEASURING" => QuickTune_GetCurrentBand = -1

\* The last tone has completed: band index 10, counter 14400, no band
\* reported.
C19_Witness ==
    /\ s_state = "COMPUTING"
    /\ s_current_band = 10
    /\ s_sample_counter = 14400
    /\ QuickTune_GetCurrentBand = -1

\* C20: the controller is never in the ERROR state and the last-error code
\* is always 0, 1 or 3, never 2, whatever operations are called.
C20_NoErrorState ==
    /\ s_state \in {"IDLE", "MEASURING", "COMPUTING", "APPLYING", "DONE"}
    /\ s_last_error \in {0, 1, 3}

\* Both error codes have been raised in one run: a Start rejected in DONE
\* after an ApplyGains call with an absent array.
C20_Witness ==
    /\ h_op = "Start"
    /\ ret = "false"
    /\ s_last_error = 1
    /\ h_gains = NULL
    /\ s_state = "DONE"

\* C21: QuickTune_GetLastError returns the error code of the last operation:
\* after a Start that returned true, after a Stop and after an ApplyGains
\* call with a present array it returns 0, whatever failed before.
C21_LastErrorOfLastOperation ==
    [][((h_op' = "Start" /\ ret' = "true")
          \/ h_op' = "Stop"
          \/ (h_op' = "ApplyGains" /\ h_gains' # NULL)) =>
         QuickTune_GetLastError' = 0]_vars

\* C22: a calibration is complete after one tone per band: once the 10 tones
\* of 14400 samples (144000 measured samples since Start) have been played,
\* the COMPUTING block and the APPLYING block follow and the APPLYING block
\* leaves the controller in DONE.
C22_DoneAfterTenTones ==
    [][(h_op' = "ProcessBlock" /\ s_state = "APPLYING" /\ h_samples = SweepSamples) =>
         s_state' = "DONE"]_vars

\* Two coefficient values agree up to the tolerance of the fixed-point
\* evaluation (0.001).
Near(x, y) == x - y <= 10 /\ y - x <= 10

\* A band designed at 0 dB (by EQ10_Init or by a setter).
DesignedFlat(c) == "gain" \in DOMAIN c /\ c.gain = 0

\* C23 as stated: every band designed with gain 0 dB, at any of the 10
\* centre frequencies and any Q within [0.1, 20], holds the coefficients
\* [b0, b1, b2, a1, a2] = [1, 0, 0, 0, 0]; so does every band after EQ10_Init.
C23_Original ==
    \A b \in Bands :
        DesignedFlat(s_eq10_coeffs[b]) =>
            LET v == BiquadValues(s_eq10_coeffs[b])
            IN  /\ Near(v[1], 10000)
                /\ Near(v[2], 0)
                /\ Near(v[3], 0)
                /\ Near(v[4], 0)
                /\ Near(v[5], 0)

\* C23 as amended: every band designed with gain 0 dB holds b0 = 1 and a
\* numerator equal to its denominator, b1 = a1 and b2 = a2, with b1 = a1
\* between -2 and -0.95 (never 0): the vector is [1, c1, c2, c1, c2], not
\* [1, 0, 0, 0, 0].
C23_Amended ==
    \A b \in Bands :
        DesignedFlat(s_eq10_coeffs[b]) =>
            LET v == BiquadValues(s_eq10_coeffs[b])
            IN  /\ Near(v[1], 10000)
                /\ v[2] = v[4]
                /\ v[3] = v[5]
                /\ v[2] >= -20000
                /\ v[2] <= -9500

\* EQ10_Init has just designed the 10 bands at 0 dB and Q = 2.0; band 0
\* (25 Hz) holds [1, -1.9985, 0.9984, -1.9985, 0.9984].
C23_Witness ==
    /\ h_op = "EQ10_Init"
    /\ s_eq10_coeffs = EQ10_InitCoeffs
    /\ BiquadValues(s_eq10_coeffs[0]) = <<10000, -19985, 9984, -19985, 9984>>

\* Q clamped to [0.1, 20], in tenths.
ClampQ(q) == IF q < 1 THEN 1 ELSE IF q > 200 THEN 200 ELSE q

\* C24: EQ10_SetBandGain(band, g, q) and EQ10_SetAllGains(gains, q) leave
\* the coefficients that the same call leaves when it is made with the gains
\* clamped to [-12, +12] dB and q clamped to [0.1, 20].
C24_SettersClamp ==
    [][/\ (h_op' = "EQ10_SetBandGain") =>
            s_eq10_coeffs' =
                EQ10_SetBandGain(s_eq10_coeffs, s_eq10_initialized,
                                 h_args'.band, Clamp12(h_args'.gain),
                                 ClampQ(h_args'.q))
       /\ (h_op' = "EQ10_SetAllGains" /\ h_args'.gains # NULL) =>
            s_eq10_coeffs' =
                EQ10_SetAllGains(s_eq10_coeffs, s_eq10_initialized,
                                 [b \in Bands |-> Clamp12(h_args'.gains[b])],
                                 ClampQ(h_args'.q))]_vars

\* SetBandGain(9, 50 dB, Q = 50) has succeeded: the band holds the
\* coefficients of 12 dB and Q = 20.
C24_Witness ==
    /\ h_op = "EQ10_SetBandGain"
    /\ ret = "true"
    /\ h_args.band = 9
    /\ h_args.gain = 5000
    /\ h_args.q = 500
    /\ s_eq10_coeffs[9] = EQ10_DesignBiquad(1600, 1200, 200)

\* C25: EQ10_SetBandGain returns false exactly when the engine is
\* uninitialized or the band index is outside [0, 9]; EQ10_SetAllGains
\* returns false exactly when the engine is uninitialized or the gains array
\* is absent (so never because of the magnitude of a gain or of Q); a call
\* that returns false changes no coefficient and no delay-line value.
C25_SetterFailures ==
    [][/\ (h_op' = "EQ10_SetBandGain") =>
            /\ (ret' = "false") <=>
                  (~s_eq10_initialized \/ h_args'.band \notin 0 .. 9)
            /\ (ret' = "true") <=>
                  (s_eq10_initialized /\ h_args'.band \in 0 .. 9)
       /\ (h_op' = "EQ10_SetAllGains") =>
            /\ (ret' = "false") <=>
                  (~s_eq10_initialized \/ h_args'.gains = NULL)
            /\ (ret' = "true") <=>
                  (s_eq10_initialized /\ h_args'.gains # NULL)
       /\ (h_op' \in {"EQ10_SetBandGain", "EQ10_SetAllGains"} /\ ret' = "false") =>
            UNCHANGED <<s_eq10_coeffs, s_eq10_state>>]_vars

\* On an initialized engine whose delay lines are in use, SetBandGain with
\* band index 10 has failed.
C25_Witness ==
    /\ h_op = "EQ10_SetBandGain"
    /\ ret = "false"
    /\ s_eq10_initialized
    /\ h_args.band = 10
    /\ h_args.gain = 600
    /\ s_eq10_state = "used"
    /\ s_eq10_coeffs # EQ10_InitCoeffs

\* C26: band invariant.  After Init and any sequence of SetBandGain,
\* SetAllGains, ApplyGains, Reset and controller/equalizer ProcessBlock calls,
\* every band's coefficients are the designer's output for the band's fixed
\* center frequency and the clamped (gain, Q) of the most recent successful
\* setter that touched it (0 dB and Q = 2.0 if none): the initial
\* coefficients are the designer's for 0 dB and Q = 2.0; a successful setter
\* (called directly, by ApplyGains or by the controller's Applying tick)
\* leaves in each band it touches the designer's output for that band's
\* frequency and its clamped arguments; every other band and every other
\* step leaves the coefficients as they are; a successful SetBandGain
\* changes no delay-line value.
Designed(b, gain_dB, Q) ==
    EQ10_DesignBiquad(QUICKTUNE_BAND_FREQUENCIES[b], Clamp12(gain_dB), ClampQ(Q))

C26_BandInvariant ==
    /\ [](\A b \in Bands :
            s_eq10_coeffs[b] =
               Designed(b, s_eq10_coeffs[b].gain, s_eq10_coeffs[b].q))
    /\ (\A b \in Bands : s_eq10_coeffs[b] = Designed(b, 0, 20))
    /\ [][IF h_op' = "EQ10_SetBandGain" /\ ret' = "true"
          THEN /\ s_eq10_coeffs'[h_args'.band] =
                    Designed(h_args'.band, h_args'.gain, h_args'.q)
               /\ \A b \in Bands \ {h_args'.band} :
                    s_eq10_coeffs'[b] = s_eq10_coeffs[b]
               /\ s_eq10_state' = s_eq10_state
          ELSE IF h_op' = "EQ10_SetAllGains" /\ ret' = "true"
          THEN \A b \in Bands :
                 s_eq10_coeffs'[b] = Designed(b, h_args'.gains[b], h_args'.q)
          ELSE IF h_op' = "ApplyGains" /\ h_gains' # NULL
          THEN \A b \in Bands :
                 s_eq10_coeffs'[b] = Designed(b, h_gains'[b], QUICKTUNE_EQ_Q)
          ELSE IF h_op' = "ProcessBlock" /\ s_state = "APPLYING"
          THEN \A b \in Bands :
                 s_eq10_coeffs'[b] =
                    Designed(b, s_cumulative_gains[b], QUICKTUNE_EQ_Q)
          ELSE s_eq10_coeffs' = s_eq10_coeffs]_vars

\* After a calibration run has programmed the equalizer and the audio path
\* has run, SetBandGain(0, 50 dB, Q = 50) has redesigned band 0 alone: band 9
\* still holds what the run gave it.
C26_Witness ==
    /\ h_op = "EQ10_SetBandGain"
    /\ ret = "true"
    /\ h_args.band = 0
    /\ s_state = "DONE"
    /\ s_eq10_state = "used"
    /\ s_eq10_coeffs[0] = EQ10_DesignBiquad(25, 1200, 200)
    /\ s_eq10_coeffs[9] = Designed(9, s_cumulative_gains[9], QUICKTUNE_EQ_Q)
    /\ s_cumulative_gains[9] # 0

C28_PublicationBarrier ==
    /\ [](rd_pc \in {"read", "done"} =>
            /\ s_state = "DONE"
            /\ \A i \in DOMAIN rd_levels : rd_levels[i] = s_measured_levels[i]
            /\ \A i \in DOMAIN rd_gains : rd_gains[i] = s_cumulative_gains[i])
    /\ [](rd_pc = "done" =>
            /\ rd_levels = QuickTune_GetMeasuredLevels
            /\ rd_gains = QuickTune_GetCorrectionGains)
    /\ [][(h_op' = "ProcessBlock" /\ (s_state = "DONE" \/ s_state' = "DONE")) =>
            /\ s_state' = "DONE"
            /\ UNCHANGED <<s_measured_levels, s_cumulative_gains>>]_vars

\* The reader has finished its copy of a run's results while the audio
\* context went on calling ProcessBlock: the copy holds non-zero cumulative
\* gains, the ones the equalizer was programmed with.
C28_Witness ==
    /\ rd_pc = "done"
    /\ h_op = "ProcessBlock"
    /\ s_state = "DONE"
    /\ rd_gains = s_cumulative_gains
    /\ rd_levels = s_measured_levels
    /\ rd_gains[0] # 0
    /\ rd_levels[0] # rd_levels[9]

\* C29: for every tone and every way of splitting the samples into blocks,
\* the detector is reset at tone start and receives exactly the microphone
\* samples whose index since tone start lies in [9600, 14400), each once and
\* in order: while a tone is measured the detector has been fed the indices
\* from 9600 up to the sample counter and nothing of the settling prefix, and
\* when the level is finalized it has been fed exactly N = 4800 samples, the
\* indices 9600 .. 14399 in order.
C29_DetectorWindow ==
    /\ [](s_state = "MEASURING" =>
            /\ s_goertzel.inorder
            /\ IF s_sample_counter <= QUICKTUNE_TONE_SETTLING_SAMPLES
               THEN s_goertzel.n = 0
               ELSE /\ s_goertzel.lo = QUICKTUNE_TONE_SETTLING_SAMPLES
                    /\ s_goertzel.hi = s_sample_counter
                    /\ s_goertzel.n = s_sample_counter - QUICKTUNE_TONE_SETTLING_SAMPLES)
    /\ [][(h_op' = "ProcessBlock" /\ s_state = "MEASURING"
             /\ s_current_band' # s_current_band) =>
            h_fed' = [n |-> QUICKTUNE_TONE_ANALYSIS_SAMPLES,
                      lo |-> QUICKTUNE_TONE_SETTLING_SAMPLES,
                      hi |-> QUICKTUNE_TONE_SETTLING_SAMPLES
                               + QUICKTUNE_TONE_ANALYSIS_SAMPLES,
                      inorder |-> TRUE]]_vars

\* A tone of the second sweep has been measured from blocks of 10000 and of
\* 4800 samples: the first block ended 400 samples into the analysis window,
\* the last one was cut at the end of the tone.
C29_Witness ==
    /\ h_op = "ProcessBlock"
    /\ s_state = "MEASURING"
    /\ s_iteration = 1
    /\ s_current_band = 1
    /\ s_sample_counter = 0
    /\ h_calls = 22
    /\ h_fed = [n |-> 4800, lo |-> 9600, hi |-> 14400, inorder |-> TRUE]
    /\ s_goertzel = Goertzel_Init
    /\ speakerOutput = [len |-> 4800, tone |-> 4400, zero |-> 400]

\* C30: when a tone completes, the measured level stored for the current
\* band is the detector's finalized level plus that band's microphone
\* calibration offset, written at the current band index before the index
\* is advanced, and no other entry is written; each sweep writes each of the
\* 10 entries exactly once, in increasing band order: a sweep starts at band
\* 0, every write is followed by the advance to the next band, no other step
\* of the sweep writes a level or moves the index, and the sweep ends when
\* the index reaches 10.
C30_LevelStored ==
    [][/\ (h_op' = "ProcessBlock" /\ s_state = "MEASURING"
              /\ s_measured_levels' # s_measured_levels) =>
            s_current_band' = s_current_band + 1
       /\ (h_op' = "ProcessBlock" /\ s_state = "MEASURING"
              /\ s_current_band' # s_current_band) =>
            /\ s_current_band \in Bands
            /\ s_current_band' = s_current_band + 1
            /\ s_measured_levels'[s_current_band] =
                  Goertzel_GetPower + QUICKTUNE_MEMS_CALIBRATION[s_current_band]
            /\ \A b \in Bands \ {s_current_band} :
                  s_measured_levels'[b] = s_measured_levels[b]
            /\ (s_state' = "COMPUTING") <=> (s_current_band' = QUICKTUNE_NUM_BANDS)
            /\ (s_state' = "MEASURING") <=> (s_current_band' < QUICKTUNE_NUM_BANDS)
       /\ (h_op' = "ProcessBlock" /\ s_state # "MEASURING") =>
            s_measured_levels' = s_measured_levels
       /\ (s_state # "MEASURING" /\ s_state' = "MEASURING") =>
            s_current_band' = 0]_vars

\* Second sweep, in a room that is no longer the room of the first sweep:
\* band 0 has just been written with what the detector heard plus 3.0 dB,
\* and band 1 still holds the first sweep's level.
C30_Witness ==
    /\ h_op = "ProcessBlock"
    /\ s_state = "MEASURING"
    /\ s_iteration = 1
    /\ s_current_band = 1
    /\ s_sample_counter = 0
    /\ s_measured_levels[0] = mic_room[0] + 300
    /\ s_measured_levels[0] # h_levels0[0]
    /\ s_measured_levels[1] = h_levels0[1]
    /\ s_measured_levels[1] # mic_room[1] + 150

\* C31: for each of the 10 band frequencies the detector's bin index k is
\* the integer nearest to N * frequency / sampleRate (N = 4800, sampleRate =
\* 48000), and the detector coefficient is 2 * cos(2 * pi * k / N) for that
\* integer k.
NearestInteger(num, den) == (2 * num + den) \div (2 * den)

C31_BinIndexNearest ==
    s_state = "MEASURING" =>
        LET k == NearestInteger(QUICKTUNE_TONE_ANALYSIS_SAMPLES
                                   * QUICKTUNE_BAND_FREQUENCIES[s_current_band],
                                QUICKTUNE_SAMPLE_RATE)
        IN  /\ s_goertzel_coeff.k = 100 * k
            /\ s_goertzel_coeff.coeff =
                  2 * CosFix((62832 * k) \div QUICKTUNE_TONE_ANALYSIS_SAMPLES)

\* C32: when the in-tone sample counter reaches QUICKTUNE_TONE_TOTAL_SAMPLES
\* at position i of a block of n samples, output samples i+1 .. n-1 of the
\* block are zero, the corresponding microphone samples are neither analysed
\* nor counted, and the next band's tone starts with sample counter 0 at the
\* next ProcessBlock call; hence with a fixed block size n every tone
\* consumes ceil(14400 / n) calls and every tone starts on a block boundary
\* (the counter is a multiple of n at every call).
CeilDiv(a, b) == (a + b - 1) \div b

C32_ToneEndsMidBlock ==
    /\ []((s_state = "MEASURING" /\ speakerOutput.len # 0) =>
            s_sample_counter % speakerOutput.len = 0)
    /\ [][(h_op' = "ProcessBlock" /\ s_state = "MEASURING"
             /\ s_current_band' # s_current_band) =>
            LET n == speakerOutput'.len
                left == QUICKTUNE_TONE_TOTAL_SAMPLES - s_sample_counter
            IN  /\ speakerOutput'.tone = left
                /\ speakerOutput'.zero = n - left
                /\ h_samples' = h_samples + left
                /\ h_fed'.n = QUICKTUNE_TONE_ANALYSIS_SAMPLES
                /\ h_fed'.hi = QUICKTUNE_TONE_TOTAL_SAMPLES
                /\ (s_state' = "MEASURING") => s_sample_counter' = 0
                /\ h_calls' =
                     (QUICKTUNE_NUM_BANDS * s_iteration + s_current_band')
                        * CeilDiv(QUICKTUNE_TONE_TOTAL_SAMPLES, n)]_vars

\* With blocks of 1000 samples the second tone of the second sweep has just
\* completed at position 399 of its 15th block: 400 samples of tone, 600 of
\* silence, and the third tone starts at counter 0.
C32_Witness ==
    /\ h_op = "ProcessBlock"
    /\ s_state = "MEASURING"
    /\ s_iteration = 1
    /\ s_current_band = 2
    /\ s_sample_counter = 0
    /\ speakerOutput = [len |-> 1000, tone |-> 400, zero |-> 600]
    /\ h_calls = 12 * 15
    /\ h_samples = 12 * 14400

\* C33: the tone envelope (fraction of the configured tone amplitude) as a
\* function of the sample index i in [0, T), with T = 14400 and F = 480 fade
\* samples, is a linear fade-in i/F over the first F samples, exactly 1 for
\* F <= i < T - F, and a linear fade-out (T - i)/F over the last F samples;
\* it always lies in [0, 1] and changes by at most 1/F between consecutive
\* samples of a tone.  (Envelope values are counted in 1/F.)
C33_ToneEnvelope ==
    [][(h_op' = "ProcessBlock" /\ s_state = "MEASURING") =>
          LET i == s_sample_counter
          IN  /\ i \in 0 .. 14399
              /\ (i < 480) => h_envelope' = i
              /\ (i >= 480 /\ i < 14400 - 480) => h_envelope' = 480
              /\ (i >= 14400 - 480) => h_envelope' = 14400 - i
              /\ h_envelope' >= 0
              /\ h_envelope' <= 480
              /\ (i > 0) => /\ h_envelope' - h_envelope <= 1
                            /\ h_envelope - h_envelope' <= 1]_vars

\* The first sample of the fade-out's descent (index 13921) has just been
\* written, at 479/480 of the amplitude.
C33_Witness ==
    /\ h_op = "ProcessBlock"
    /\ s_state = "MEASURING"
    /\ s_sample_counter = 13922
    /\ h_envelope = 479

\* C34: the controller state changes only along these edges: Idle ->
\* Measuring (successful Start), Measuring -> Computing (the ProcessBlock
\* call in which band 9's tone completes), Computing -> Applying and
\* Applying -> Measuring or Applying -> Done (one ProcessBlock call each),
\* and any state -> Idle (Stop or Init); ApplyGains, failed Start calls and
\* equalizer operations never change the state (the getters are functions of
\* the state and change nothing).
C34_StateEdges ==
    [][/\ (s_state' # s_state) =>
            \/ /\ s_state = "IDLE" /\ s_state' = "MEASURING"
               /\ h_op' = "Start" /\ ret' = "true"
            \/ /\ s_state = "MEASURING" /\ s_state' = "COMPUTING"
               /\ h_op' = "ProcessBlock"
               /\ s_current_band = QUICKTUNE_NUM_BANDS - 1
               /\ s_current_band' = QUICKTUNE_NUM_BANDS
            \/ /\ s_state = "COMPUTING" /\ s_state' = "APPLYING"
               /\ h_op' = "ProcessBlock"
            \/ /\ s_state = "APPLYING" /\ s_state' \in {"MEASURING", "DONE"}
               /\ h_op' = "ProcessBlock"
            \/ /\ s_state' = "IDLE"
               /\ h_op' \in {"Stop", "Init"}
       /\ (h_op' = "ProcessBlock" /\ s_state \in {"COMPUTING", "APPLYING"}) =>
            s_state' # s_state
       /\ (h_op' \in {"Stop", "Init"}) => s_state' = "IDLE"
       /\ (h_op' \in {"ApplyGains", "EQ10_ProcessBlock", "EQ10_Reset"}
             \/ (h_op' = "Start" /\ ret' = "false")) =>
            s_state' = s_state]_vars

\* ApplyGains has been called in the middle of the Applying step of the
\* second sweep and the controller is still Applying.
C34_Witness ==
    /\ h_op = "ApplyGains"
    /\ h_gains = PresetA
    /\ s_state = "APPLYING"
    /\ s_iteration = 1
    /\ s_current_band = QUICKTUNE_NUM_BANDS

\* C35: liveness.  After a successful Start, if ProcessBlock keeps being
\* called with at least one sample per call and neither Stop nor Init is
\* called, the controller eventually reaches Done; once in Done it stays in
\* Done under further ProcessBlock, ApplyGains and Start calls.
C35_EventuallyDone ==
    /\ (s_state \in {"MEASURING", "COMPUTING", "APPLYING"}) ~> (s_state = "DONE")
    /\ [][s_state = "DONE" => s_state' = "DONE"]_vars

\* A run has reached Done and a further Start has been refused there.
C35_Witness ==
    /\ s_state = "DONE"
    /\ h_op = "Start"
    /\ ret = "false"
    /\ s_iteration = QUICKTUNE_MAX_ITERATIONS - 1
    /\ h_samples = 3 * SweepSamples

\* C36: whenever GetCorrectionGains returns a non-null array (state Done),
\* after any sequence of public operations including ApplyGains, every entry
\* lies within [-12, +12] dB and equals the gain currently programmed into
\* the corresponding equalizer band.
C36_ReportedGainsProgrammed ==
    (QuickTune_GetCorrectionGains # NULL) =>
        \A b \in Bands :
            /\ QuickTune_GetCorrectionGains[b] >= QUICKTUNE_MIN_GAIN_DB
            /\ QuickTune_GetCorrectionGains[b] <= QUICKTUNE_MAX_GAIN_DB
            /\ s_eq10_coeffs[b].gain = QuickTune_GetCorrectionGains[b]

\* C37: every microphone sample fed to the detector is captured while the
\* tone is emitted at full, flat amplitude: the analysis window [9600, 14400)
\* does not overlap the fade-in (first 480 samples) or the fade-out (last 480
\* samples) of the tone.
C37_AnalysisAtFullAmplitude ==
    [][(/\ h_op' = "ProcessBlock"
        /\ s_state = "MEASURING"
        /\ \/ s_goertzel'.n > s_goertzel.n
           \/ (s_current_band' # s_current_band /\ h_fed'.n > s_goertzel.n)) =>
          h_envelope' = QUICKTUNE_FADE_SAMPLES]_vars

=============================================================================
